---- MODULE Spec2Model ----
(***************************************************************************)
(* A run of index.mjs: main -> fetchAll (a chain of awaited fetchData      *)
(* calls) -> generateReadme (loadTemplate, handlebars) -> writeFileSync.   *)
(* The file holds two variants of the script: variant 1 is lines 1-144     *)
(* (per-repository commit fan-out, fetchAll swallows errors), variant 2 is *)
(* lines 146-298 (public-only star filter, first and latest pull request,  *)
(* fetchAll rethrows).  The scheduler of update-readme.yml starts the      *)
(* script again on a later day against the README.md the last run left.    *)
(***************************************************************************)
EXTENDS Integers, Sequences, FiniteSets, TLC

VARIABLES
  variant,        \* which of the two scripts runs
  repositories,   \* the repository list the API serves
  mock,           \* which set of payload numbers the API serves
  tmpl,           \* state of README.md.hbs on disk: "readable" or "missing"
  resp,           \* responses the API has given, by request position
  run,            \* number of the current run
  today,          \* day of the wall clock
  pc,             \* position of the single thread of control
  stage,          \* which fetchData call of fetchAll is next or awaited
  ci,             \* index of the for-of loop over repositories (variant 1)
  inFlight,       \* paths of the HTTP requests issued and not yet completed
  reqLog,         \* paths of the requests issued in this run, in order
  calls,          \* number of fetchData calls made in this run
  lastCall,       \* the last completed fetchData call: path, response, result
  locals,         \* local variables of fetchAll
  valuesRead,     \* number of fetched values fetchAll has read so far
  data,           \* main's data: what fetchAll returned
  fetchAllOutcome,\* "none", "returned" or "threw"
  err,            \* the error being propagated: messages, outermost first
  failures,       \* classes of failure that occurred in this run
  errLog,         \* who called console.error in this run, in order
  readmeContent,  \* main's readmeContent
  rendered,       \* whether generateReadme has returned in this run
  readme,         \* content of README.md on disk
  readmeAtStart,  \* content of README.md when the run started
  writes,         \* number of writeFileSync calls of this run
  writeAt,        \* number of requests completed when README.md was written
  outLog,         \* lines console.log wrote in this run
  prev            \* outcome of the previous run

vars == <<variant, repositories, mock, tmpl, resp, run, today, pc, stage, ci,
          inFlight, reqLog, calls, lastCall, locals, valuesRead, data,
          fetchAllOutcome, err, failures, errLog, readmeContent, rendered,
          readme, readmeAtStart, writes, writeAt, outLog, prev>>

-----------------------------------------------------------------------------
\* Bounds of the model.

\* Longest repository list the API serves.
MaxRepos == 2

\* Number of runs the scheduler starts.
MaxRuns == 2

-----------------------------------------------------------------------------
\* Inputs.

Variants == {1, 2}

\* Entries of a repository list: name, stargazers_count, private.  Two
\* entries may carry the same name (type=all lists repositories of other
\* owners too).
RepoKinds ==
  { [name |-> "a", stargazers_count |-> 1, private |-> FALSE],
    [name |-> "b", stargazers_count |-> 2, private |-> TRUE],
    [name |-> "a", stargazers_count |-> 3, private |-> FALSE] }

RECURSIVE SeqsUpTo(_, _)
SeqsUpTo(S, n) ==
  IF n = 0 THEN {<<>>}
  ELSE LET shorter == SeqsUpTo(S, n - 1)
       IN  shorter \cup {Append(s, e) : s \in {t \in shorter : Len(t) = n - 1}, e \in S}

RepoLists == SeqsUpTo(RepoKinds, MaxRepos)

Mocks == {1, 2}

TemplateStates == {"readable", "missing"}

\* A timestamp of the API: the calendar day and the time of day, or a value
\* new Date() cannot parse.
Timestamp(d, t) == [valid |-> TRUE, day |-> d, tod |-> t]
InvalidTimestamp == [valid |-> FALSE, day |-> 0, tod |-> 0]

username == "la55u"

-----------------------------------------------------------------------------
\* The paths fetchAll hands to fetchData.

Stages == {"repos", "commits", "issues", "prAsc", "prDesc", "merged",
           "comments", "user", "build"}

Path(v, s, name) ==
  CASE s = "repos" ->
         "users/" \o username \o "/repos?type="
           \o (IF v = 1 THEN "all" ELSE "public") \o "&per_page=100"
    [] s = "commits" -> "repos/" \o username \o "/" \o name \o "/commits"
    [] s = "issues" -> "search/issues?q=author:" \o username \o "+type:issue"
    [] s = "prAsc" ->
         "search/issues?q=author:" \o username \o "+type:pr&sort=created&order=asc"
           \o (IF v = 1 THEN "" ELSE "&per_page=1")
    [] s = "prDesc" ->
         "search/issues?q=author:" \o username
           \o "+type:pr&sort=created&order=desc&per_page=1"
    [] s = "merged" -> "search/issues?q=author:" \o username \o "+type:pr+is:merged"
    [] s = "comments" -> "search/issues?q=commenter:" \o username
    [] s = "user" -> IF v = 1 THEN "user" ELSE "users/" \o username

\* The stage after stage s; i is the loop index after s, n the length of the
\* repository list.  Variant 1 loops over the repositories after the list
\* and has no descending search; variant 2 has no commit loop.
NextStage(v, s, i, n) ==
  CASE s = "repos" -> IF v = 1 /\ n > 0 THEN "commits" ELSE "issues"
    [] s = "commits" -> IF i <= n THEN "commits" ELSE "issues"
    [] s = "issues" -> "prAsc"
    [] s = "prAsc" -> IF v = 1 THEN "merged" ELSE "prDesc"
    [] s = "prDesc" -> "merged"
    [] s = "merged" -> "comments"
    [] s = "comments" -> "user"
    [] s = "user" -> "build"

\* Issued with the commit listings requested together (Promise.all over the
\* repository list) instead of one awaited call per iteration.
IssuedAllAtOnce(v, s, i, repos) ==
  IF s = "commits"
  THEN [k \in 1..(Len(repos) - i + 1) |-> Path(v, s, repos[i + k - 1].name)]
  ELSE <<Path(v, s, "")>>

\* The requests the call at stage s puts in flight: the one awaited call.
Issued(v, s, i, repos) ==
  <<Path(v, s, IF s = "commits" THEN repos[i].name ELSE "")>>

-----------------------------------------------------------------------------
\* The API: what a request can be answered with.

Response(net, ok, json, shape) ==
  [net |-> net, ok |-> ok, json |-> json, shape |-> shape]

\* Transport failure; non-success status with and without a JSON error
\* body; success status with a body that is not JSON.
FailingResponses ==
  { Response("down", FALSE, FALSE, "none"),
    Response("up", FALSE, TRUE, "none"),
    Response("up", FALSE, FALSE, "none"),
    Response("up", TRUE, FALSE, "none") }

Shapes(s) ==
  CASE s \in {"prAsc", "prDesc"} -> {"full", "emptyItems", "badDate"}
    [] s = "user" -> {"full", "badDate"}
    [] OTHER -> {"full"}

Responses(s) ==
  FailingResponses \cup {Response("up", TRUE, TRUE, sh) : sh \in Shapes(s)}

NoItem == [created_at |-> InvalidTimestamp, html_url |-> ""]

\* The JSON body of a successful response: only the fields the script reads.
Body(s, shape, m, repos, name) ==
  [ list |-> CASE s = "repos" -> repos
               [] s = "commits" ->
                    [k \in 1..(IF name = "a" THEN m ELSE m + 1) |-> NoItem]
               [] OTHER -> <<>>,
    total_count |-> CASE s = "issues" -> m
                      [] s \in {"prAsc", "prDesc"} -> m + 2
                      [] s = "merged" -> m + 1
                      [] s = "comments" -> m + 4
                      [] OTHER -> 0,
    items |-> IF s \notin {"prAsc", "prDesc"} \/ shape = "emptyItems" THEN <<>>
              ELSE << [ created_at |->
                          IF shape = "badDate" THEN InvalidTimestamp
                          ELSE IF s = "prAsc" THEN Timestamp(m + 1, 3)
                          ELSE Timestamp(m + 3, 7),
                        html_url |-> IF s = "prAsc" THEN "pr/first" ELSE "pr/latest" ] >>,
    created_at |-> IF s = "user" /\ shape = "full" THEN Timestamp(m, 5)
                   ELSE InvalidTimestamp,
    public_repos |-> IF s = "user" THEN m + 5 ELSE 0,
    followers |-> IF s = "user" THEN m + 6 ELSE 0 ]

-----------------------------------------------------------------------------
\* fetchData: one request, then the status check, the JSON parse and the
\* catch that wraps whatever was thrown.

FetchError(path, cause) ==
  [kind |-> "error", err |-> <<"Error fetching path " \o path, cause>>,
   body |-> Body("none", "none", 0, <<>>, "")]

\* fetchData without the response.ok check: an error body is returned as data.
fetchDataNoStatusCheck(path, r, body) ==
  IF r.net = "down" THEN FetchError(path, "TypeError: fetch failed")
  ELSE IF ~r.json THEN FetchError(path, "SyntaxError: Unexpected token")
  ELSE [kind |-> "data", err |-> <<>>, body |-> body]

fetchData(path, r, body) ==
  IF r.net = "down" THEN FetchError(path, "TypeError: fetch failed")
  ELSE IF ~r.ok THEN
    IF ~r.json THEN FetchError(path, "SyntaxError: Unexpected token")
    ELSE FetchError(path, "Error: status statusText")
  ELSE IF ~r.json THEN FetchError(path, "SyntaxError: Unexpected token")
  ELSE [kind |-> "data", err |-> <<>>, body |-> body]

\* The class of a failed response.
FailureClass(r) ==
  IF r.net = "down" THEN "transport" ELSE IF ~r.ok THEN "status" ELSE "json"

-----------------------------------------------------------------------------
\* fetchAll's aggregation.

\* totalStars without the private check of variant 2.
RECURSIVE totalStarsUnfiltered(_, _)
totalStarsUnfiltered(v, repos) ==
  IF repos = <<>> THEN 0
  ELSE totalStarsUnfiltered(v, SubSeq(repos, 1, Len(repos) - 1))
         + repos[Len(repos)].stargazers_count

\* The forEach over the repository list: variant 2 skips private entries.
RECURSIVE totalStars(_, _)
totalStars(v, repos) ==
  IF repos = <<>> THEN 0
  ELSE LET repo == repos[Len(repos)]
       IN  totalStars(v, SubSeq(repos, 1, Len(repos) - 1))
             + (IF v = 2 /\ repo.private THEN 0 ELSE repo.stargazers_count)

\* new Date(x).toISOString().substring(0, 10): the calendar day of a
\* timestamp; the time of day is dropped.  Throws on an invalid timestamp.
NormalizeDate(ts) == ts.day

EmptyLocals ==
  [ totalStars |-> 0, totalCommits |-> 0, issuesOpened |-> 0, prsOpened |-> 0,
    firstPRDate |-> InvalidTimestamp, firstPRUrl |-> "",
    latestPRDate |-> InvalidTimestamp, latestPRUrl |-> "",
    prsMerged |-> 0, commentsOnIssues |-> 0,
    registeredDate |-> InvalidTimestamp, publicRepoCount |-> 0, followers |-> 0 ]

\* The dates the return statement formats.
DatesFormatted(v, l) ==
  IF v = 1 THEN {l.registeredDate, l.firstPRDate}
  ELSE {l.registeredDate, l.firstPRDate, l.latestPRDate}

\* The record fetchAll returns in variant 1.
Summary1(l, now) ==
  [ issuesOpened |-> l.issuesOpened,
    pullRequestsOpened |-> l.prsOpened,
    pullRequestsMerged |-> l.prsMerged,
    commentsOnIssues |-> l.commentsOnIssues,
    publicRepoCount |-> l.publicRepoCount,
    totalStars |-> l.totalStars,
    totalCommits |-> l.totalCommits,
    registeredDate |-> NormalizeDate(l.registeredDate),
    firstPullRequestDate |-> NormalizeDate(l.firstPRDate),
    sponsoredAccounts |-> 3,
    statUpdated |-> now,
    followers |-> l.followers ]

\* The record fetchAll returns in variant 2.
Summary2(l, now) ==
  [ issuesOpened |-> l.issuesOpened,
    prsOpened |-> l.prsOpened,
    prsMerged |-> l.prsMerged,
    commentsOnIssues |-> l.commentsOnIssues,
    publicRepoCount |-> l.publicRepoCount,
    totalStars |-> l.totalStars,
    registeredDate |-> NormalizeDate(l.registeredDate),
    firstPRDate |-> NormalizeDate(l.firstPRDate),
    firstPRUrl |-> l.firstPRUrl,
    sponsoredAccounts |-> 3,
    statUpdated |-> now,
    followers |-> l.followers,
    latestPRDate |-> NormalizeDate(l.latestPRDate),
    latestPRUrl |-> l.latestPRUrl ]

\* Summary with new Date() in place of new Date(registeredDate).
SummaryClockLeak(v, l, now) ==
  LET leaked == [l EXCEPT !.registeredDate = Timestamp(now, 0)]
  IN  IF v = 1 THEN Summary1(leaked, now) ELSE Summary2(leaked, now)

\* The record fetchAll returns.
Summary(v, l, now) == IF v = 1 THEN Summary1(l, now) ELSE Summary2(l, now)

\* What a function that ends without a return statement hands back.
Undefined == [undefined |-> TRUE]

-----------------------------------------------------------------------------
\* The renderer: the template's placeholders, each replaced by the text of
\* the field of that name, or by nothing when the data has no such field.

UrlFields == {"firstPRUrl", "latestPRUrl"}

TemplateFields(v) ==
  IF v = 1 THEN
    {"issuesOpened", "pullRequestsOpened", "pullRequestsMerged",
     "commentsOnIssues", "publicRepoCount", "totalStars", "totalCommits",
     "registeredDate", "firstPullRequestDate", "sponsoredAccounts",
     "statUpdated", "followers"}
  ELSE
    {"issuesOpened", "prsOpened", "prsMerged", "commentsOnIssues",
     "publicRepoCount", "totalStars", "registeredDate", "firstPRDate",
     "firstPRUrl", "sponsoredAccounts", "statUpdated", "followers",
     "latestPRDate", "latestPRUrl"}

Render(fields, d) ==
  [ f \in fields |->
      IF f \notin DOMAIN d THEN ""
      ELSE IF f \in UrlFields THEN d[f]
      ELSE ToString(d[f]) ]

\* README.md as the repository holds it before the first run.
PreviousReadme == [f \in {"previous"} |-> "previous"]

NoCall ==
  [path |-> "", response |-> Response("none", FALSE, FALSE, "none"),
   result |-> "none", err |-> <<>>]

NoRun == [wrote |-> FALSE, readme |-> PreviousReadme]

-----------------------------------------------------------------------------
Init ==
  /\ variant \in Variants
  /\ repositories \in RepoLists
  /\ mock \in Mocks
  /\ tmpl \in TemplateStates
  /\ resp = <<>>
  /\ run = 1
  /\ today = 1
  /\ pc = "start"
  /\ stage = "repos"
  /\ ci = 1
  /\ inFlight = <<>>
  /\ reqLog = <<>>
  /\ calls = 0
  /\ lastCall = NoCall
  /\ locals = EmptyLocals
  /\ valuesRead = 0
  /\ data = Undefined
  /\ fetchAllOutcome = "none"
  /\ err = <<>>
  /\ failures = {}
  /\ errLog = <<>>
  /\ readmeContent = PreviousReadme
  /\ rendered = FALSE
  /\ readme = PreviousReadme
  /\ readmeAtStart = PreviousReadme
  /\ writes = 0
  /\ writeAt = 0
  /\ outLog = <<>>
  /\ prev = NoRun

inputs == <<variant, repositories, mock, tmpl>>
clock == <<run, today, prev, readmeAtStart>>
disk == <<readme, writes, writeAt>>

\* main calls fetchAll.
Start ==
  /\ pc = "start"
  /\ pc' = "request"
  /\ UNCHANGED <<inputs, clock, disk, outLog, resp, stage, ci, inFlight, reqLog, calls,
                 lastCall, locals, valuesRead, data, fetchAllOutcome, err,
                 failures, errLog, readmeContent, rendered>>

\* fetchData logs the path and issues the request.
Request ==
  /\ pc = "request"
  /\ inFlight' = inFlight \o Issued(variant, stage, ci, repositories)
  /\ reqLog' = reqLog \o Issued(variant, stage, ci, repositories)
  /\ calls' = calls + 1
  /\ outLog' = outLog \o [k \in 1..Len(Issued(variant, stage, ci, repositories)) |->
                            "Fetching: " \o Issued(variant, stage, ci, repositories)[k]]
  /\ pc' = "await"
  /\ UNCHANGED <<inputs, clock, disk, resp, stage, ci, lastCall, locals,
                 valuesRead, data, fetchAllOutcome, err, failures, errLog,
                 readmeContent, rendered>>

-----------------------------------------------------------------------------
\* The awaited request completes and fetchAll goes on.

Awaiting(s) == pc = "await" /\ stage = s /\ inFlight # <<>>

\* Position, among the requests of the run, of the one completing now.
Completing == Len(reqLog) - Len(inFlight) + 1

\* What the API may answer: anything the endpoint can send, once; a later
\* run meets the same API responses.
Offered(s) == IF Completing <= Len(resp) THEN {resp[Completing]} ELSE Responses(s)

Result(s, r) ==
  fetchData(Head(inFlight), r,
            Body(s, r.shape, mock, repositories,
                 IF s = "commits" THEN repositories[ci].name ELSE ""))

Settle(r, res) ==
  /\ resp' = IF Completing <= Len(resp) THEN resp ELSE Append(resp, r)
  /\ lastCall' = [path |-> Head(inFlight), response |-> r,
                  result |-> res.kind, err |-> res.err]
  /\ inFlight' = Tail(inFlight)
  /\ UNCHANGED <<inputs, clock, disk, outLog, reqLog, calls, data, fetchAllOutcome,
                 errLog, readmeContent, rendered>>

\* A throw inside fetchAll's try block.
Raise(e, class) ==
  /\ pc' = "catch"
  /\ err' = e
  /\ failures' = failures \cup {class}
  /\ UNCHANGED <<locals, stage, ci, valuesRead>>

\* fetchAll reads the body and goes to its next statement.
Advance(l, s, i) ==
  /\ pc' = IF s = "build" THEN "build" ELSE "request"
  /\ locals' = l
  /\ stage' = s
  /\ ci' = i
  /\ valuesRead' = valuesRead + 1
  /\ UNCHANGED <<err, failures>>

EmptyItems == <<"TypeError: Cannot read properties of undefined (reading 'created_at')">>

RespRepos ==
  /\ Awaiting("repos")
  /\ \E r \in Offered("repos") :
       LET res == Result("repos", r) IN
       /\ Settle(r, res)
       /\ IF res.kind = "error" THEN Raise(res.err, FailureClass(r))
          ELSE Advance([locals EXCEPT !.totalStars = totalStars(variant, res.body.list)],
                       NextStage(variant, "repos", 1, Len(res.body.list)), 1)

RespCommits ==
  /\ Awaiting("commits")
  /\ \E r \in Offered("commits") :
       LET res == Result("commits", r) IN
       /\ Settle(r, res)
       /\ IF res.kind = "error" THEN Raise(res.err, FailureClass(r))
          ELSE Advance([locals EXCEPT !.totalCommits = @ + Len(res.body.list)],
                       NextStage(variant, "commits", ci + 1, Len(repositories)),
                       ci + 1)

RespIssues ==
  /\ Awaiting("issues")
  /\ \E r \in Offered("issues") :
       LET res == Result("issues", r) IN
       /\ Settle(r, res)
       /\ IF res.kind = "error" THEN Raise(res.err, FailureClass(r))
          ELSE Advance([locals EXCEPT !.issuesOpened = res.body.total_count],
                       NextStage(variant, "issues", ci, Len(repositories)), ci)

RespPrAsc ==
  /\ Awaiting("prAsc")
  /\ \E r \in Offered("prAsc") :
       LET res == Result("prAsc", r) IN
       /\ Settle(r, res)
       /\ IF res.kind = "error" THEN Raise(res.err, FailureClass(r))
          ELSE IF res.body.items = <<>> THEN Raise(EmptyItems, "shape")
          ELSE Advance([locals EXCEPT
                          !.prsOpened = res.body.total_count,
                          !.firstPRDate = res.body.items[1].created_at,
                          !.firstPRUrl = IF variant = 1 THEN @
                                         ELSE res.body.items[1].html_url],
                       NextStage(variant, "prAsc", ci, Len(repositories)), ci)

RespPrDesc ==
  /\ Awaiting("prDesc")
  /\ \E r \in Offered("prDesc") :
       LET res == Result("prDesc", r) IN
       /\ Settle(r, res)
       /\ IF res.kind = "error" THEN Raise(res.err, FailureClass(r))
          ELSE IF res.body.items = <<>> THEN Raise(EmptyItems, "shape")
          ELSE Advance([locals EXCEPT
                          !.latestPRDate = res.body.items[1].created_at,
                          !.latestPRUrl = res.body.items[1].html_url],
                       NextStage(variant, "prDesc", ci, Len(repositories)), ci)

RespMerged ==
  /\ Awaiting("merged")
  /\ \E r \in Offered("merged") :
       LET res == Result("merged", r) IN
       /\ Settle(r, res)
       /\ IF res.kind = "error" THEN Raise(res.err, FailureClass(r))
          ELSE Advance([locals EXCEPT !.prsMerged = res.body.total_count],
                       NextStage(variant, "merged", ci, Len(repositories)), ci)

RespComments ==
  /\ Awaiting("comments")
  /\ \E r \in Offered("comments") :
       LET res == Result("comments", r) IN
       /\ Settle(r, res)
       /\ IF res.kind = "error" THEN Raise(res.err, FailureClass(r))
          ELSE Advance([locals EXCEPT !.commentsOnIssues = res.body.total_count],
                       NextStage(variant, "comments", ci, Len(repositories)), ci)

RespUser ==
  /\ Awaiting("user")
  /\ \E r \in Offered("user") :
       LET res == Result("user", r) IN
       /\ Settle(r, res)
       /\ IF res.kind = "error" THEN Raise(res.err, FailureClass(r))
          ELSE Advance([locals EXCEPT
                          !.registeredDate = res.body.created_at,
                          !.publicRepoCount = res.body.public_repos,
                          !.followers = res.body.followers],
                       NextStage(variant, "user", ci, Len(repositories)), ci)

\* The return statement of fetchAll: toISOString throws a RangeError on a
\* date it cannot parse.
BuildSummary ==
  /\ pc = "build"
  /\ IF \A ts \in DatesFormatted(variant, locals) : ts.valid
     THEN /\ data' = Summary(variant, locals, today)
          /\ fetchAllOutcome' = "returned"
          /\ pc' = "loadTemplate"
          /\ UNCHANGED <<err, failures>>
     ELSE /\ pc' = "catch"
          /\ err' = <<"RangeError: Invalid time value">>
          /\ failures' = failures \cup {"shape"}
          /\ UNCHANGED <<data, fetchAllOutcome>>
  /\ UNCHANGED <<inputs, clock, disk, outLog, resp, stage, ci, inFlight, reqLog, calls,
                 lastCall, locals, valuesRead, errLog, readmeContent, rendered>>

\* FetchAllCatch without the console.error call.
FetchAllCatchSilent ==
  /\ pc = "catch"
  /\ IF variant = 1
     THEN /\ data' = Undefined
          /\ fetchAllOutcome' = "returned"
          /\ err' = <<>>
          /\ pc' = "loadTemplate"
     ELSE /\ err' = <<"Error: " \o err[1]>> \o err
          /\ fetchAllOutcome' = "threw"
          /\ pc' = "mainCatch"
          /\ UNCHANGED data
  /\ UNCHANGED <<inputs, clock, disk, outLog, resp, stage, ci, inFlight, reqLog, calls,
                 lastCall, locals, valuesRead, failures, errLog, readmeContent,
                 rendered>>

\* The catch block of fetchAll: variant 1 logs and falls off the end of the
\* function, variant 2 logs and throws a new error with the caught one as
\* its cause.
FetchAllCatch ==
  /\ pc = "catch"
  /\ errLog' = Append(errLog, "fetchAll")
  /\ IF variant = 1
     THEN /\ data' = Undefined
          /\ fetchAllOutcome' = "returned"
          /\ err' = <<>>
          /\ pc' = "loadTemplate"
     ELSE /\ err' = <<"Error: " \o err[1]>> \o err
          /\ fetchAllOutcome' = "threw"
          /\ pc' = "mainCatch"
          /\ UNCHANGED data
  /\ UNCHANGED <<inputs, clock, disk, outLog, resp, stage, ci, inFlight, reqLog, calls,
                 lastCall, locals, valuesRead, failures, readmeContent, rendered>>

\* LoadTemplate with a catch that logs and returns nothing instead of
\* rethrowing: generateReadme goes on to render.
LoadTemplateNoRethrow ==
  /\ pc = "loadTemplate"
  /\ pc' = "render"
  /\ IF tmpl = "readable"
     THEN UNCHANGED <<failures, errLog>>
     ELSE /\ failures' = failures \cup {"template"}
          /\ errLog' = Append(errLog, "loadTemplate")
  /\ UNCHANGED <<inputs, clock, disk, outLog, resp, stage, ci, inFlight, reqLog, calls,
                 lastCall, locals, valuesRead, data, fetchAllOutcome, err,
                 readmeContent, rendered>>

\* generateReadme calls loadTemplate: readFileSync returns the content or
\* throws; loadTemplate logs and rethrows.
LoadTemplate ==
  /\ pc = "loadTemplate"
  /\ IF tmpl = "readable"
     THEN /\ pc' = "render"
          /\ UNCHANGED <<err, failures, errLog>>
     ELSE /\ pc' = "generateCatch"
          /\ err' = <<"Error: ENOENT: no such file or directory">>
          /\ failures' = failures \cup {"template"}
          /\ errLog' = Append(errLog, "loadTemplate")
  /\ UNCHANGED <<inputs, clock, disk, outLog, resp, stage, ci, inFlight, reqLog, calls,
                 lastCall, locals, valuesRead, data, fetchAllOutcome,
                 readmeContent, rendered>>

\* The catch block of generateReadme logs and rethrows.
GenerateReadmeCatch ==
  /\ pc = "generateCatch"
  /\ errLog' = Append(errLog, "generateReadme")
  /\ pc' = "mainCatch"
  /\ UNCHANGED <<inputs, clock, disk, outLog, resp, stage, ci, inFlight, reqLog, calls,
                 lastCall, locals, valuesRead, data, fetchAllOutcome, err,
                 failures, readmeContent, rendered>>

\* handlebars.compile and template(data); generateReadme returns.
RenderReadme ==
  /\ pc = "render"
  /\ readmeContent' = Render(TemplateFields(variant), data)
  /\ rendered' = TRUE
  /\ pc' = "write"
  /\ UNCHANGED <<inputs, clock, disk, outLog, resp, stage, ci, inFlight, reqLog, calls,
                 lastCall, locals, valuesRead, data, fetchAllOutcome, err,
                 failures, errLog>>

\* WriteReadme without the writeFileSync call.
WriteReadmeSkipped ==
  /\ pc = "write"
  /\ pc' = "done"
  /\ UNCHANGED <<inputs, clock, disk, outLog, resp, stage, ci, inFlight, reqLog, calls,
                 lastCall, locals, valuesRead, data, fetchAllOutcome, err,
                 failures, errLog, readmeContent, rendered>>

\* fs.writeFileSync("README.md", readmeContent) and the success message.
WriteReadme ==
  /\ pc = "write"
  /\ readme' = readmeContent
  /\ writes' = writes + 1
  /\ writeAt' = Len(reqLog) - Len(inFlight)
  /\ outLog' = Append(outLog, "README file updated successfully.")
  /\ pc' = "done"
  /\ UNCHANGED <<inputs, clock, resp, stage, ci, inFlight, reqLog, calls,
                 lastCall, locals, valuesRead, data, fetchAllOutcome, err,
                 failures, errLog, readmeContent, rendered>>

\* The catch block of main logs and returns.
MainCatch ==
  /\ pc = "mainCatch"
  /\ errLog' = Append(errLog, "main")
  /\ pc' = "done"
  /\ UNCHANGED <<inputs, clock, disk, outLog, resp, stage, ci, inFlight, reqLog, calls,
                 lastCall, locals, valuesRead, data, fetchAllOutcome, err,
                 failures, readmeContent, rendered>>

\* The scheduler starts the script again, the same day or the next, against
\* the same API and template and the README.md the last run left.
Restart ==
  /\ pc = "done"
  /\ run < MaxRuns
  /\ run' = run + 1
  /\ today' \in {today, today + 1}
  /\ prev' = [wrote |-> writes > 0, readme |-> readme]
  /\ readmeAtStart' = readme
  /\ pc' = "start"
  /\ stage' = "repos"
  /\ ci' = 1
  /\ inFlight' = <<>>
  /\ reqLog' = <<>>
  /\ calls' = 0
  /\ lastCall' = NoCall
  /\ locals' = EmptyLocals
  /\ valuesRead' = 0
  /\ data' = Undefined
  /\ fetchAllOutcome' = "none"
  /\ err' = <<>>
  /\ failures' = {}
  /\ errLog' = <<>>
  /\ readmeContent' = PreviousReadme
  /\ rendered' = FALSE
  /\ writes' = 0
  /\ writeAt' = 0
  /\ outLog' = <<>>
  /\ UNCHANGED <<inputs, resp, readme>>

\* The steps of one run of the script.
RunStep ==
  \/ Start
  \/ Request
  \/ RespRepos
  \/ RespCommits
  \/ RespIssues
  \/ RespPrAsc
  \/ RespPrDesc
  \/ RespMerged
  \/ RespComments
  \/ RespUser
  \/ BuildSummary
  \/ FetchAllCatch
  \/ LoadTemplate
  \/ GenerateReadmeCatch
  \/ RenderReadme
  \/ WriteReadme
  \/ MainCatch

Next == RunStep \/ Restart

Spec == Init /\ [][Next]_vars

\* One run: the event loop runs every continuation that is ready, and every
\* request is answered.
RunSpec == Init /\ [][RunStep]_vars /\ WF_vars(RunStep)

-----------------------------------------------------------------------------
\* Properties.

FetchFailureClasses == {"transport", "status", "json", "shape"}

\* C1: README.md is written only on full success: in a run where some stage
\* failed (transport, HTTP status, malformed response, unreadable template)
\* main never writes README.md and the file stays as it was.
C1_WriteOnlyOnFullSuccess ==
  failures # {} => writes = 0 /\ readme = readmeAtStart

\* C2: when a fetchData call of fetchAll has failed, fetchAll ends by
\* throwing to main, never by a normal return, and hands over no summary.
C2_FetchAllSurfacesError ==
  (fetchAllOutcome # "none" /\ lastCall.result = "error")
    => fetchAllOutcome = "threw" /\ data = Undefined

\* Number of fetchData calls of a run in which every fetch succeeds.
FetchCount == IF variant = 1 THEN 6 + Len(repositories) ELSE 7

C3_Written ==
  /\ writes = 1
  /\ rendered
  /\ data = Summary(variant, locals, today)
  /\ readme = Render(TemplateFields(variant), data)
  /\ inFlight = <<>>
  /\ Len(reqLog) = FetchCount
  /\ writeAt = FetchCount

\* C3: a run in which every fetch succeeds with a well-formed response and
\* the template is readable ends, and ends with README.md written exactly
\* once, holding the rendered summary, after every fetch and the rendering.
C3_SuccessWritesOnce ==
  /\ [](pc = "done" /\ failures = {} => C3_Written)
  /\ [](writes <= 1)
  /\ <>(pc = "done")

C3_Witness == pc = "done" /\ failures = {} /\ writes = 1 /\ Len(reqLog) > 7

\* C4: every fetchData call issues exactly one request, and a call whose
\* request failed in transport or came back with a non-success status ends
\* in the wrapping error, which names the path and carries the error caught
\* as its cause; such a call returns no data and fetchAll reads none.
C4_FetchDataSingleAttempt ==
  /\ Len(reqLog) = calls
  /\ (lastCall # NoCall /\ (lastCall.response.net = "down" \/ ~lastCall.response.ok))
       => /\ lastCall.result = "error"
          /\ Len(lastCall.err) = 2
          /\ lastCall.err[1] = "Error fetching path " \o lastCall.path
          /\ lastCall.err[2] =
               (IF lastCall.response.net = "down" THEN "TypeError: fetch failed"
                ELSE IF lastCall.response.json THEN "Error: status statusText"
                ELSE "SyntaxError: Unexpected token")
          /\ valuesRead = Len(reqLog) - 1
          /\ pc \notin {"request", "await", "build"}

C4_Witness ==
  /\ lastCall.response.net = "up"
  /\ ~lastCall.response.ok
  /\ lastCall.response.json
  /\ lastCall.result = "error"
  /\ Len(reqLog) > 2

\* C5 as claimed: a failed run logs its failure exactly once, in main.
C5_LoggedOnceAtTopLevel ==
  (pc = "done" /\ failures # {}) => errLog = <<"main">>

C5_ExpectedLog ==
  (IF failures \cap FetchFailureClasses # {}
   THEN <<"fetchAll">> \o (IF variant = 2 THEN <<"main">> ELSE <<>>)
   ELSE <<>>)
  \o
  (IF "template" \in failures
   THEN <<"loadTemplate", "generateReadme", "main">>
   ELSE <<>>)

\* C5: every failure of a run is logged, by each function it passes
\* through: a failed fetch or malformed response by fetchAll, and by main
\* too in variant 2 only; an unreadable template by loadTemplate,
\* generateReadme and main.  A run without failure logs no error.
C5_LoggedAtEachLevel ==
  pc = "done" => /\ errLog = C5_ExpectedLog
                 /\ (failures # {} => Len(errLog) >= 1)

C5_Witness ==
  /\ pc = "done"
  /\ variant = 1
  /\ "template" \in failures
  /\ "status" \in failures
  /\ Len(errLog) = 4

\* C6 as claimed: a missing template fails the run before any fetched value
\* is read, and README.md is not written.
C6_TemplateFailsBeforeFetchUse ==
  "template" \in failures => valuesRead = 0 /\ writes = 0

\* C6: with the template missing README.md is never written nor rendered;
\* the template is read only after fetchAll has returned, and a run whose
\* fetchAll returned fails on the template.
C6_TemplateFailsAfterFetchAll ==
  /\ tmpl = "missing" => writes = 0 /\ ~rendered /\ readme = readmeAtStart
  /\ "template" \in failures
       => tmpl = "missing" /\ fetchAllOutcome = "returned" /\ inFlight = <<>>
  /\ (pc = "done" /\ tmpl = "missing" /\ fetchAllOutcome = "returned")
       => "template" \in failures

C6_Witness ==
  /\ pc = "done"
  /\ "template" \in failures
  /\ valuesRead = Len(reqLog)
  /\ valuesRead >= 7

\* C7: at most one request is in flight at any time, a request is in flight
\* exactly while fetchData awaits it, and the commit listings of variant 1
\* are requested one by one in the order of the repository list.
C7_OneRequestInFlight ==
  /\ Len(inFlight) <= 1
  /\ (pc = "await") = (Len(inFlight) = 1)
  /\ variant = 1 =>
       \A i \in 1..Len(repositories) :
         i + 1 <= Len(reqLog) =>
           reqLog[i + 1] = Path(1, "commits", repositories[i].name)

C7_Witness ==
  /\ variant = 1
  /\ stage = "commits"
  /\ ci = 2
  /\ Len(inFlight) = 1

\* Sum of stargazers_count over the entries of the list at the indices in S.
RECURSIVE StarSum(_)
StarSum(S) ==
  IF S = {} THEN 0
  ELSE LET i == CHOOSE j \in S : TRUE
       IN  repositories[i].stargazers_count + StarSum(S \ {i})

\* C8: once the repository list is fetched, totalStars is the sum of
\* stargazers_count over the whole list in variant 1 and over the entries
\* that are not private in variant 2, and the summary carries that value.
C8_TotalStars ==
  LET all == 1..Len(repositories)
      included == IF variant = 1 THEN all
                  ELSE {i \in all : ~repositories[i].private}
  IN  /\ valuesRead > 0 => locals.totalStars = StarSum(included)
      /\ "totalStars" \in DOMAIN data => data.totalStars = StarSum(included)

C8_Witness ==
  /\ variant = 2
  /\ "totalStars" \in DOMAIN data
  /\ data.totalStars = 1
  /\ Len(repositories) = 2
  /\ \E i \in 1..Len(repositories) : repositories[i].private

\* README.md without the text of the statUpdated field.
Masked(doc) == [f \in (DOMAIN doc) \ {"statUpdated"} |-> doc[f]]

\* C9: a run that meets the same API responses and template as the run
\* before it ends the same way (both write README.md or neither does), and
\* two written files differ at most in the text of statUpdated.
C9_RerunSameOutcome ==
  (pc = "done" /\ run > 1)
    => /\ prev.wrote = (writes > 0)
       /\ writes > 0 => Masked(readme) = Masked(prev.readme)

C9_Witness ==
  /\ pc = "done"
  /\ run > 1
  /\ failures = {}
  /\ writes = 1
  /\ prev.wrote
  /\ readme # prev.readme

\* The requests of a run in which every fetch succeeds, in order.
ExpectedOrder ==
  <<Path(variant, "repos", "")>>
  \o (IF variant = 1
      THEN [i \in 1..Len(repositories) |-> Path(1, "commits", repositories[i].name)]
      ELSE <<>>)
  \o <<Path(variant, "issues", ""), Path(variant, "prAsc", "")>>
  \o (IF variant = 2 THEN <<Path(2, "prDesc", "")>> ELSE <<>>)
  \o <<Path(variant, "merged", ""), Path(variant, "comments", ""),
       Path(variant, "user", "")>>

IsPrefix(s, t) == Len(s) <= Len(t) /\ s = SubSeq(t, 1, Len(s))

\* Every request before the last one issued was answered, and answered with
\* a response fetchAll went on from.
EarlierSucceeded ==
  /\ Len(resp) >= Len(reqLog) - 1
  /\ \A k \in 1..(Len(reqLog) - 1) :
       /\ resp[k].net = "up"
       /\ resp[k].ok
       /\ resp[k].json
       /\ resp[k].shape # "emptyItems"

\* C10: the requests of a run follow the fixed order (repository list, one
\* commit listing per repository in variant 1, issue search, pull-request
\* search ascending, descending in variant 2, merged search, comment
\* search, user profile), each is issued only after all earlier ones
\* succeeded, none after a failed one, and no path is requested twice.
C10_FixedOrderEachOnce ==
  /\ IsPrefix(reqLog, ExpectedOrder)
  /\ EarlierSucceeded
  /\ \A i, j \in 1..Len(reqLog) : reqLog[i] = reqLog[j] => i = j

\* What holds of the request order: the fixed order, each request after
\* all earlier ones succeeded and none after a failed one; a path is
\* requested twice only as the commit listing of two entries of the
\* repository list that carry one name.
RequestOrder ==
  /\ IsPrefix(reqLog, ExpectedOrder)
  /\ EarlierSucceeded
  /\ \A i, j \in 1..Len(reqLog) :
       (reqLog[i] = reqLog[j] /\ i # j)
         => /\ variant = 1
            /\ {i, j} \subseteq 2..(Len(repositories) + 1)
            /\ repositories[i - 1].name = repositories[j - 1].name

====
